---- MODULE Spec2Model ----
(***************************************************************************)
(* Model of manifest/request.py: the Request hierarchy (pydantic models)   *)
(* and Request.to_dict, which renames and filters the fields of a request  *)
(* for a backend.                                                          *)
(*                                                                         *)
(* Python values are written as the strings of their repr ("120", "''",    *)
(* "None").  A dict with insertion order (the allow-list) is a sequence of *)
(* records [key, val] with distinct keys, val being the tuple              *)
(* <<external name, placeholder>>.  The returned dict is a function from   *)
(* external names to values.  An Optional dict argument is a record        *)
(* [isNone, items].                                                        *)
(***************************************************************************)
EXTENDS Naturals, Sequences, FiniteSets

\* ------------------------------------------------------------------ bounds
\* Largest number of entries of a caller-made allow-list.
MaxAllow == 2

\* ------------------------------------------------------- module constants
None == "None"

ENGINE_SEP_VALUE == "::"

NOT_CACHE_KEYS_VALUE == {"client_timeout", "batch_size"}

DEFAULT_REQUEST_KEYS_VALUE ==
    << [key |-> "client_timeout", val |-> <<"client_timeout", "60">>],
       [key |-> "batch_size",     val |-> <<"batch_size", "8">>],
       [key |-> "run_id",         val |-> <<"run_id", None>>] >>

\* ------------------------------------------------------------- the schema
Kinds == {"Request", "LMRequest", "LMChatRequest", "LMScoreRequest",
          "EmbeddingRequest", "DiffusionRequest"}

\* Fields of Request in declaration order.
RequestFields ==
    <<"prompt", "engine", "n", "client_timeout", "run_id", "batch_size">>

\* Fields LMRequest adds, in declaration order.
LMRequestFields ==
    <<"temperature", "max_tokens", "max_new_tokens", "top_p", "top_k",
      "logprobs", "stop_sequences", "num_beams", "do_sample",
      "repetition_penalty", "length_penalty", "presence_penalty",
      "frequency_penalty">>

\* Fields DiffusionRequest adds, in declaration order.
DiffusionRequestFields ==
    <<"num_inference_steps", "height", "width", "guidance_scale", "eta">>

\* The fields of a class: those of the base class first; a field that a
\* subclass declares again (LMChatRequest.prompt) keeps its position.
Fields(kind) ==
    CASE kind \in {"LMRequest", "LMChatRequest", "LMScoreRequest"}
           -> RequestFields \o LMRequestFields
      [] kind = "DiffusionRequest"
           -> RequestFields \o DiffusionRequestFields
      [] OTHER -> RequestFields

Range(s) == {s[i] : i \in DOMAIN s}

FieldSet(kind) == Range(Fields(kind))

RequestDefaults ==
    [prompt |-> "''", engine |-> "'text-ada-001'", n |-> "1",
     client_timeout |-> "120", run_id |-> None, batch_size |-> "8"]

LMRequestDefaults ==
    [temperature |-> "0.7", max_tokens |-> "100", max_new_tokens |-> "20",
     top_p |-> "1.0", top_k |-> "50", logprobs |-> None,
     stop_sequences |-> None, num_beams |-> "1", do_sample |-> "False",
     repetition_penalty |-> "1.0", length_penalty |-> "1.0",
     presence_penalty |-> "0", frequency_penalty |-> "0"]

DiffusionRequestDefaults ==
    [num_inference_steps |-> "50", height |-> "512", width |-> "512",
     guidance_scale |-> "7.5", eta |-> "0.0"]

\* The default of field f of a class.
Default(kind, f) ==
    IF f = "prompt" /\ kind = "LMChatRequest" THEN "{}"
    ELSE IF f \in DOMAIN RequestDefaults THEN RequestDefaults[f]
    ELSE IF f \in DOMAIN LMRequestDefaults THEN LMRequestDefaults[f]
    ELSE DiffusionRequestDefaults[f]

\* The fields declared Optional[...]: the only ones that validate None.
OptionalFields == {"run_id", "logprobs", "stop_sequences"}

\* ------------------------------------------------------------ construction
\* Request(**kwargs) validates: None is rejected for a field that is not
\* Optional.  Keyword arguments that name no field are ignored.
Validates(kind, kwargs) ==
    \A f \in DOMAIN kwargs :
        (f \in FieldSet(kind) /\ kwargs[f] = None) => f \in OptionalFields

\* The instance Request(**kwargs) of a class: every field at its default
\* unless a keyword argument sets it.
Construct(kind, kwargs) ==
    [kind   |-> kind,
     fields |-> [f \in FieldSet(kind) |->
                    IF f \in DOMAIN kwargs THEN kwargs[f]
                    ELSE Default(kind, f)]]

\* ------------------------------------------------------------ dict helpers
NoneArg == [isNone |-> TRUE, items |-> <<>>]

DictArg(items) == [isNone |-> FALSE, items |-> items]

\* Truth value of an Optional dict: None and {} are both false.
Truthy(arg) == ~arg.isNone /\ Len(arg.items) > 0

\* d.keys()
Keys(items) == {items[i].key : i \in DOMAIN items}

\* d.get(k, default)
Get(items, k, default) ==
    IF k \in Keys(items)
    THEN items[CHOOSE i \in DOMAIN items : items[i].key = k].val
    ELSE default

\* d[name] = v on a returned dict
Put(d, name, v) ==
    [e \in DOMAIN d \cup {name} |-> IF e = name THEN v ELSE d[e]]

EmptyDict == [e \in {} |-> None]

\* ------------------------------------------------------------------ to_dict
\* include_keys without the add of line 52: prompt is a candidate only
\* when the allow-list names it.
include_keys_never_prompt(allowable_keys, add_prompt) ==
    IF Truthy(allowable_keys)
    THEN [isNone |-> FALSE, keys |-> Keys(allowable_keys.items)]
    ELSE [isNone |-> TRUE, keys |-> {}]

\* include_keys with line 51 reduced to `if "prompt":`, add_prompt unread.
include_keys_always_prompt(allowable_keys, add_prompt) ==
    IF Truthy(allowable_keys)
    THEN [isNone |-> FALSE,
          keys   |-> Keys(allowable_keys.items) \cup {"prompt"}]
    ELSE [isNone |-> TRUE, keys |-> {}]

\* include_keys with line 49 as `if allowable_keys is not None:`.
include_keys_is_not_none(allowable_keys, add_prompt) ==
    IF ~allowable_keys.isNone
    THEN [isNone |-> FALSE,
          keys   |-> Keys(allowable_keys.items)
                       \cup (IF add_prompt THEN {"prompt"} ELSE {})]
    ELSE [isNone |-> TRUE, keys |-> {}]

\* Lines 49-55: the include set handed to self.dict; isNone stands for
\* include=None, which selects every field.
include_keys(allowable_keys, add_prompt) ==
    IF Truthy(allowable_keys)
    THEN [isNone |-> FALSE,
          keys   |-> Keys(allowable_keys.items)
                       \cup (IF add_prompt /\ "prompt" # ""
                             THEN {"prompt"} ELSE {})]
    ELSE [isNone |-> TRUE, keys |-> {}]

\* Lines 49 and 54: the dict the local name allowable_keys is bound to when
\* the comprehension runs.
local_allowable_keys(allowable_keys) ==
    IF Truthy(allowable_keys) THEN allowable_keys.items ELSE <<>>

\* self.dict(include=..., exclude_defaults=True): fields at their default
\* are left out.
dict_keys_exclude_defaults(self, include) ==
    LET Included(k) == /\ include.isNone \/ k \in include.keys
                       /\ self.fields[k] # Default(self.kind, k)
    IN  SelectSeq(Fields(self.kind), Included)

\* self.dict(include=...): the names of the included fields of the
\* instance, in declaration order; names that are no field are skipped.
dict_keys(self, include) ==
    LET Included(k) == include.isNone \/ k \in include.keys
    IN  SelectSeq(Fields(self.kind), Included)

\* Line 57 without the renaming: every field under its own name.
external_name_identity(items, k) == k

\* Line 57: the key under which field k is emitted.
external_name(items, k) == Get(items, k, <<k, None>>)[1]

\* emit without the filter of line 59.
emit_keep_none(acc, items, k, v) ==
    Put(acc, Get(items, k, <<k, None>>)[1], v)

\* emit that fills a None value with the placeholder of the allow-list.
emit_fill_placeholder(acc, items, k, v) ==
    LET entry == Get(items, k, <<k, None>>)
    IN  IF v # None THEN Put(acc, entry[1], v)
        ELSE IF entry[2] # None THEN Put(acc, entry[1], entry[2])
        ELSE acc

\* Line 57-59: what one (k, v) of the comprehension does to the dict built
\* so far.
emit(acc, items, k, v) ==
    IF v # None THEN Put(acc, external_name(items, k), v) ELSE acc

RECURSIVE comprehension(_, _, _, _, _)
\* Lines 56-60: the dict comprehension, run over ks from position i on.
comprehension(self, items, ks, i, acc) ==
    IF i > Len(ks) THEN acc
    ELSE comprehension(self, items, ks, i + 1,
                       emit(acc, items, ks[i], self.fields[ks[i]]))

\* The comprehension run over the allow-list's items (then prompt) instead
\* of over self.dict(): insertion order of the allow-list decides.
request_dict_of_allow_order(self, allowable_keys, add_prompt) ==
    LET items == local_allowable_keys(allowable_keys)
        IsFieldOfSelf(x) == x.key \in FieldSet(self.kind)
        listed == SelectSeq(items, IsFieldOfSelf)
        ks == IF ~Truthy(allowable_keys) THEN Fields(self.kind)
              ELSE [i \in DOMAIN listed |-> listed[i].key]
                     \o (IF add_prompt /\ "prompt" \notin Keys(items)
                         THEN <<"prompt">> ELSE <<>>)
    IN  comprehension(self, items, ks, 1, EmptyDict)

\* Lines 56-61: the returned dict.
request_dict_of(self, allowable_keys, add_prompt) ==
    comprehension(self, local_allowable_keys(allowable_keys),
                  dict_keys(self, include_keys(allowable_keys, add_prompt)),
                  1, EmptyDict)

\* to_dict that adds prompt to the caller's dict instead of to a copy of
\* its keys.
to_dict_writes_argument(self, allowable_keys, add_prompt) ==
    [ret            |-> request_dict_of(self, allowable_keys, add_prompt),
     self           |-> self,
     allowable_keys |->
        IF /\ Truthy(allowable_keys) /\ add_prompt
           /\ "prompt" \notin Keys(allowable_keys.items)
        THEN DictArg(Append(allowable_keys.items,
                            [key |-> "prompt", val |-> <<"prompt", None>>]))
        ELSE allowable_keys]

\* Request.to_dict: the returned dict, together with the instance and the
\* caller's allow-list object as the call leaves them.  The include set is
\* a copy of the keys and line 54 rebinds a local name, so neither object
\* is written.
to_dict(self, allowable_keys, add_prompt) ==
    [ret            |-> request_dict_of(self, allowable_keys, add_prompt),
     self           |-> self,
     allowable_keys |-> allowable_keys]

\* ------------------------------------------------------------------ inputs
\* Keyword arguments the descriptors are constructed with.
KwargValues ==
    [prompt |-> {"'hi'"}, run_id |-> {None, "'r1'"}]

KwargNames == DOMAIN KwargValues

KwargsSet ==
    UNION {{kw \in [S -> {None, "'hi'", "'r1'"}] :
               \A f \in S : kw[f] \in KwargValues[f]} :
           S \in SUBSET KwargNames}

\* Internal names used as allow-list keys; "temperature" is no field of
\* Request, EmbeddingRequest and DiffusionRequest.
AllowKeys == {"prompt", "n", "run_id", "temperature"}

\* External names an allow-list may rename to, besides the key itself.
RenameNames == {"prompt", "run_id", "temp"}

PlaceholderValues == {None, "60"}

\* An entry renames its key or keeps it; the run_id entries carry either
\* placeholder, the others None.
AllowEntries ==
    {x \in [key : AllowKeys,
            val : (AllowKeys \cup RenameNames) \X PlaceholderValues] :
        /\ x.val[1] \in {x.key} \cup RenameNames
        /\ x.val[2] # None => x.key = "run_id"}

\* The dicts of at most MaxAllow entries, in every insertion order.
AllowLists ==
    UNION {{s \in [1..n -> AllowEntries] :
               \A i, j \in 1..n : i # j => s[i].key # s[j].key} :
           n \in 0..MaxAllow}

\* ------------------------------------------------------------------- state
VARIABLES
    self,                  \* the request instance [kind, fields]
    kwargs,                \* the keyword arguments it was constructed with
    passed,                \* the allow-list argument of the last call, as passed
    allowable_keys,        \* the caller's allow-list object after that call
    add_prompt,            \* add_prompt of the last call
    request_dict,          \* the dict the last call returned
    pc,                    \* "constructed", "called" or "repeated"
    NOT_CACHE_KEYS,
    DEFAULT_REQUEST_KEYS,
    ENGINE_SEP

vars == <<self, kwargs, passed, allowable_keys, add_prompt, request_dict, pc,
          NOT_CACHE_KEYS, DEFAULT_REQUEST_KEYS, ENGINE_SEP>>

globals == <<NOT_CACHE_KEYS, DEFAULT_REQUEST_KEYS, ENGINE_SEP>>

Init ==
    /\ \E kind \in Kinds, kw \in KwargsSet :
          /\ Validates(kind, kw)
          /\ kwargs = kw
          /\ self = Construct(kind, kw)
    /\ passed = NoneArg
    /\ allowable_keys = NoneArg
    /\ add_prompt = TRUE
    /\ request_dict = EmptyDict
    /\ pc = "constructed"
    /\ NOT_CACHE_KEYS = NOT_CACHE_KEYS_VALUE
    /\ DEFAULT_REQUEST_KEYS = DEFAULT_REQUEST_KEYS_VALUE
    /\ ENGINE_SEP = ENGINE_SEP_VALUE

\* One call self.to_dict(arg, flag).
Call(arg, flag) ==
    LET r == to_dict(self, arg, flag)
    IN  /\ request_dict' = r.ret
        /\ self' = r.self
        /\ passed' = arg
        /\ allowable_keys' = r.allowable_keys
        /\ add_prompt' = flag
        /\ UNCHANGED <<kwargs, globals>>

\* The call of a fresh instance with a caller-made allow-list.
ToDictAllow ==
    /\ pc = "constructed"
    /\ pc' = "called"
    /\ \E items \in AllowLists, flag \in BOOLEAN : Call(DictArg(items), flag)

\* The call of a fresh instance with the module's DEFAULT_REQUEST_KEYS.
ToDictDefaultKeys ==
    /\ pc = "constructed"
    /\ pc' = "called"
    /\ \E flag \in BOOLEAN : Call(DictArg(DEFAULT_REQUEST_KEYS), flag)

\* A call without allow-list, on a fresh or a used instance.
ToDictNone ==
    /\ pc' = "called"
    /\ \E flag \in BOOLEAN : Call(NoneArg, flag)

\* The last call once more, with the same objects as arguments.
ToDictAgain ==
    /\ pc \in {"called", "repeated"}
    /\ pc' = "repeated"
    /\ Call(allowable_keys, add_prompt)

Next == ToDictAllow \/ ToDictDefaultKeys \/ ToDictNone \/ ToDictAgain

Spec == Init /\ [][Next]_vars

TypeOK ==
    /\ self.kind \in Kinds
    /\ DOMAIN self.fields = FieldSet(self.kind)
    /\ pc \in {"constructed", "called", "repeated"}
    /\ add_prompt \in BOOLEAN

\* ------------------------------------------------- vocabulary of the claims
\* A call has returned.
Called == pc # "constructed"

\* The entries of the allow-list of the last call.
A == passed.items

\* An allow-list was supplied (possibly empty).
Supplied == ~passed.isNone

IsField(k) == k \in FieldSet(self.kind)

Value(k) == self.fields[k]

\* ext(k): A[k][0] if k is a key of A, k itself otherwise.
Ext(k) ==
    IF k \in Keys(A)
    THEN (CHOOSE x \in Range(A) : x.key = k).val[1]
    ELSE k

\* The candidate set of a call with a non-empty allow-list.
Candidates == Keys(A) \cup (IF add_prompt THEN {"prompt"} ELSE {})

\* The candidates that are fields of the descriptor with a non-null value.
Contributing == {k \in Candidates : IsField(k) /\ Value(k) # None}

\* The external names of A are pairwise distinct, and none is "prompt"
\* unless it is mapped from prompt.
DistinctExternalNames ==
    /\ \A i, j \in DOMAIN A : i # j => A[i].val[1] # A[j].val[1]
    /\ \A i \in DOMAIN A : A[i].val[1] = "prompt" => A[i].key = "prompt"

\* { ext(k) -> value(k) : k contributing }
ExpectedMapping ==
    [e \in {Ext(k) : k \in Contributing} |->
        Value(CHOOSE k \in Contributing : Ext(k) = e)]

\* Every non-null field under its own name.
AllNonNull ==
    [f \in {g \in FieldSet(self.kind) : Value(g) # None} |-> Value(f)]

\* ----------------------------------------------------------------- claim C1
\* C1: with a non-empty allow-list whose external names are pairwise
\* distinct (and "prompt" only when mapped from prompt), to_dict returns
\* exactly { ext(k) -> value(k) } over the candidates (allow-list keys, plus
\* prompt when add_prompt) that are fields with a non-null value; keys that
\* name no field and fields outside the candidate set contribute nothing.
C1_ExactMapping ==
    (Called /\ Supplied /\ Len(A) > 0 /\ DistinctExternalNames)
        => request_dict = ExpectedMapping

\* An LMRequest serialized with {temperature: (temp, None)} and add_prompt:
\* exactly temp and prompt come out, max_tokens does not.
C1_Witness ==
    /\ Called /\ Supplied /\ DistinctExternalNames
    /\ self.kind = "LMRequest"
    /\ Keys(A) = {"temperature"} /\ Ext("temperature") = "temp"
    /\ add_prompt
    /\ Value("max_tokens") # None
    /\ DOMAIN request_dict = {"temp", "prompt"}
    /\ request_dict["temp"] = Value("temperature")

\* ----------------------------------------------------------------- claim C2
\* C2 as stated: the external name of a field whose value is null is never
\* a key of the result.
C2_NullNameNeverAKey ==
    Called => \A k \in FieldSet(self.kind) :
                 Value(k) = None => Ext(k) \notin DOMAIN request_dict

\* C2 amended: a null field contributes no entry.  No value of the result
\* is null, and the external name of a null field is a key of the result
\* only when another candidate field with a non-null value has the same
\* external name, whose value the entry then holds.
C2_NullContributesNothing ==
    Called =>
      /\ \A e \in DOMAIN request_dict : request_dict[e] # None
      /\ \A k \in FieldSet(self.kind) :
            (Value(k) = None /\ Ext(k) \in DOMAIN request_dict)
              => \E j \in FieldSet(self.kind) \ {k} :
                    /\ Value(j) # None
                    /\ Ext(j) = Ext(k)
                    /\ request_dict[Ext(k)] = Value(j)

\* run_id is null and allow-listed, and its name is absent from the result.
C2_Witness ==
    /\ Called /\ Supplied
    /\ "run_id" \in Keys(A)
    /\ Value("run_id") = None
    /\ Ext("run_id") \notin DOMAIN request_dict
    /\ DOMAIN request_dict # {}

\* ----------------------------------------------------------------- claim C3
\* Every field of the descriptor is at its default.
AllDefault == self = Construct(self.kind, <<>>)

\* C3 as stated: an all-default descriptor of any kind, serialized without
\* allow-list and with add_prompt, yields a mapping whose only key is
\* "prompt".
C3_OnlyPrompt ==
    (Called /\ ~Supplied /\ add_prompt /\ AllDefault)
        => DOMAIN request_dict = {"prompt"}

\* C3 amended: it yields every field whose default is not null under its
\* own name with its default value (all fields but run_id, logprobs and
\* stop_sequences); prompt is one of them.
C3_AllNonNullDefaults ==
    (Called /\ ~Supplied /\ add_prompt /\ AllDefault)
        => /\ request_dict =
                [f \in {g \in FieldSet(self.kind) :
                           Default(self.kind, g) # None} |->
                    Default(self.kind, f)]
           /\ "prompt" \in DOMAIN request_dict
           /\ DOMAIN request_dict \cap OptionalFields = {}

C3_Witness ==
    /\ Called /\ ~Supplied /\ add_prompt /\ AllDefault
    /\ self.kind = "DiffusionRequest"
    /\ "height" \in DOMAIN request_dict

\* ----------------------------------------------------------------- claim C4
\* C4 as stated: with add_prompt false and a supplied allow-list without
\* the key "prompt" (the empty one included), the result has no key
\* "prompt".
C4_NoPromptKey ==
    (Called /\ Supplied /\ ~add_prompt /\ "prompt" \notin Keys(A))
        => "prompt" \notin DOMAIN request_dict

\* C4 amended: that holds for a non-empty allow-list that maps no field
\* with a non-null value to the external name "prompt".
C4_NoPromptKeyUnlessRenamed ==
    (/\ Called /\ Supplied /\ ~add_prompt /\ "prompt" \notin Keys(A)
     /\ Len(A) > 0
     /\ \A k \in Keys(A) :
           (IsField(k) /\ Value(k) # None) => Ext(k) # "prompt")
        => "prompt" \notin DOMAIN request_dict

C4_Witness ==
    /\ Called /\ Supplied /\ ~add_prompt /\ "prompt" \notin Keys(A)
    /\ Len(A) > 0
    /\ Value("prompt") = "'hi'"
    /\ DOMAIN request_dict # {}
    /\ "prompt" \notin DOMAIN request_dict

\* ----------------------------------------------------------------- claim C5
\* C5: when add_prompt is true the prompt is always in the output
\* dictionary: the result has an entry whose value is the descriptor's
\* prompt, whatever the allow-list.
C5_PromptAlwaysInOutput ==
    (Called /\ add_prompt)
        => \E e \in DOMAIN request_dict : request_dict[e] = Value("prompt")

\* ----------------------------------------------------------------- claim C6
\* inv = {ext: k for k, (ext, _) in A.items()}: the key of the last entry
\* with external name e.
Inverse(e) ==
    A[CHOOSE i \in DOMAIN A :
         /\ A[i].val[1] = e
         /\ \A j \in DOMAIN A : A[j].val[1] = e => j <= i].key

\* The keyword arguments {inv[e]: M[e]} a mapping M keyed by external names
\* of A is turned into.
Invert(M) ==
    [k \in {Inverse(e) : e \in DOMAIN M} |->
        M[CHOOSE e \in DOMAIN M : Inverse(e) = k]]

\* The one mapping that can have been inverted into the keyword arguments
\* of the descriptor (distinct external names have distinct inverses).
MappingM ==
    [e \in {Ext(k) : k \in DOMAIN kwargs} |-> kwargs[Inverse(e)]]

\* The descriptor was constructed from a mapping M keyed by external names
\* of the allow-list it is then serialized with.
RoundTrip ==
    /\ Called /\ Supplied
    /\ DOMAIN kwargs \subseteq Keys(A)
    /\ \A k \in DOMAIN kwargs : Inverse(Ext(k)) = k
    /\ Invert(MappingM) = kwargs

\* M restricted to its non-null entries whose key is the external name of
\* an allow-listed field of the descriptor.
RestrictedM ==
    [e \in {x \in DOMAIN MappingM :
               /\ MappingM[x] # None
               /\ \E k \in Keys(A) : IsField(k) /\ Ext(k) = x} |->
        MappingM[e]]

\* The candidate fields M leaves at a default that is not null.
Defaulted ==
    {k \in Candidates :
        /\ IsField(k)
        /\ k \notin DOMAIN kwargs
        /\ Default(self.kind, k) # None}

\* C6 as stated: to_dict(A) of the descriptor constructed from M returns
\* exactly M restricted to its non-null entries of allow-listed fields, and
\* no key absent from M.
C6_RoundTripExact ==
    (RoundTrip /\ add_prompt) => request_dict = RestrictedM

\* C6 amended: for a non-empty allow-list with pairwise distinct external
\* names (none "prompt" unless mapped from prompt), the result is M
\* restricted as above, together with ext(k) -> default(k) for every
\* candidate field k (allow-listed, or prompt when add_prompt) that M does
\* not set and whose default is not null.
C6_RoundTripWithDefaults ==
    (RoundTrip /\ Len(A) > 0 /\ DistinctExternalNames)
        => request_dict =
             [e \in DOMAIN RestrictedM \cup {Ext(k) : k \in Defaulted} |->
                 IF e \in DOMAIN RestrictedM THEN RestrictedM[e]
                 ELSE Default(self.kind,
                              CHOOSE k \in Defaulted : Ext(k) = e)]

\* M = {rid: 'r1', ...} over an allow-list that renames run_id; the
\* defaulted candidate n comes out next to M's entry.
C6_Witness ==
    /\ RoundTrip /\ Len(A) > 0 /\ DistinctExternalNames
    /\ "run_id" \in DOMAIN kwargs /\ kwargs["run_id"] = "'r1'"
    /\ Ext("run_id") = "temp"
    /\ "n" \in Keys(A)
    /\ request_dict["temp"] = "'r1'"
    /\ Ext("n") \in DOMAIN request_dict

Position(k) ==
    CHOOSE i \in DOMAIN Fields(self.kind) : Fields(self.kind)[i] = k

\* The candidate fields with a non-null value emitted under e.
Colliding(e) == {k \in Contributing : Ext(k) = e}

LastDeclared(S) == CHOOSE k \in S : \A j \in S : Position(j) <= Position(k)

\* The allow-list with its entries in every order.
Reorderings ==
    {[i \in DOMAIN A |-> A[p[i]]] :
        p \in {q \in [DOMAIN A -> DOMAIN A] :
                  \A i, j \in DOMAIN A : i # j => q[i] # q[j]}}

PlaceholderVariants ==
    {[i \in DOMAIN A |-> [key |-> A[i].key, val |-> <<A[i].val[1], ph[i]>>]] :
        ph \in [DOMAIN A -> PlaceholderValues]}

\* C9: the second element of an entry never influences the result.  Every
\* allow-list with the same keys and external names gives the same mapping,
\* a null field is not emitted with its placeholder, and with
\* DEFAULT_REQUEST_KEYS client_timeout keeps its own value and a null
\* run_id stays absent.
C9_PlaceholderUnused ==
    (Called /\ Supplied)
        => /\ \A B \in PlaceholderVariants :
                 to_dict(self, DictArg(B), add_prompt).ret = request_dict
           /\ \A i \in DOMAIN A :
                 (/\ IsField(A[i].key) /\ Value(A[i].key) = None
                  /\ A[i].val[2] # None
                  /\ A[i].val[1] \in DOMAIN request_dict)
                    => request_dict[A[i].val[1]] # A[i].val[2]
           /\ A = DEFAULT_REQUEST_KEYS
                 => /\ request_dict["client_timeout"]
                         = Value("client_timeout")
                    /\ Value("run_id") = None
                         => "run_id" \notin DOMAIN request_dict

\* run_id is null and listed with the placeholder 60: nothing is emitted
\* for it.
C9_Witness ==
    /\ Called /\ Supplied
    /\ Value("run_id") = None
    /\ \E i \in DOMAIN A :
          /\ A[i].key = "run_id" /\ A[i].val[2] = "60"
          /\ A[i].val[1] \notin DOMAIN request_dict
    /\ DOMAIN request_dict # {}

\* ---------------------------------------------------------------- claim C10
\* C10: an empty allow-list is treated like an absent one.  Either way the
\* result is every non-null field under its own name, prompt included, for
\* both values of add_prompt.
C10_EmptyLikeAbsent ==
    (Called /\ ~Truthy(passed))
        => /\ request_dict = AllNonNull
           /\ request_dict = to_dict(self, NoneArg, add_prompt).ret
           /\ request_dict = to_dict(self, DictArg(<<>>), add_prompt).ret
           /\ request_dict = to_dict(self, passed, ~add_prompt).ret
           /\ Value("prompt") # None => "prompt" \in DOMAIN request_dict

\* to_dict({}, False) has returned prompt and the other non-null fields.
C10_Witness ==
    /\ Called /\ Supplied /\ Len(A) = 0 /\ ~add_prompt
    /\ "prompt" \in DOMAIN request_dict
    /\ "n" \in DOMAIN request_dict
====
